---- MODULE Spec2Model ----
(***************************************************************************)
(* Model of the bulk image resizer page (src/src/pages/ImageResizer.tsx,   *)
(* the component that starts at line 343).  The state is the component's   *)
(* React state plus what its asynchronous callbacks hold in their closures *)
(* (image decodes started by loadImage, batches started by                 *)
(* processAllImages).  One action per UI event or callback.  A handler     *)
(* runs against the state of the render it was created in: an event        *)
(* handler sees the current state, a callback (img.onload, the code after  *)
(* an await) sees the state captured when its handler was invoked.         *)
(***************************************************************************)
EXTENDS Integers, Sequences, FiniteSets, TLC

\* ------------------------------------------------------------------------
\* Bounds of the exploration
\* ------------------------------------------------------------------------
MaxLoads == 2       \* loadImage calls in one behaviour
MaxSelect == 2      \* files in one FileList
MaxNow == 1         \* last value of the millisecond clock
MaxInflight == 2    \* processAllImages calls that may be unsettled at once
MaxAlerts == 1      \* alert() dialogs in one behaviour
MaxExports == 1     \* downloadAllImages calls in one behaviour
MaxDownloads == 2   \* downloads triggered in one behaviour
MaxMessages == 5    \* messages of the chat, the greeting included
MaxReaders == 1     \* FileReaders of the chat reading at once

\* ------------------------------------------------------------------------
\* The files the user can pick: name, MIME type, whether the browser can
\* decode the content as an image, and the decoded natural size.
\* ------------------------------------------------------------------------
Files == {"a.png", "b.jpg", "t.txt"}

FileType == [f \in Files |->
    CASE f = "a.png" -> "image/png"
      [] f = "b.jpg" -> "image/jpeg"
      [] OTHER       -> "text/plain"]

Decodes == [f \in Files |-> f \in {"a.png", "b.jpg"}]

NaturalSize == [f \in Files |->
    CASE f = "a.png" -> <<800, 600>>
      [] f = "b.jpg" -> <<37, 18>>
      [] OTHER       -> <<0, 0>>]

IsImageType(f) == FileType[f] \in {"image/png", "image/jpeg"}

RandomSuffixes == {"k3x", "q9z"}

\* ------------------------------------------------------------------------
\* IEEE 754 binary64 arithmetic on the operands the handlers use: the
\* quotient of two positive integers, its product with an integer, and
\* Math.round of that product.  A double is [sig, exp]: sig is its 53-bit
\* significand written as five digits, the leading digit followed by four
\* digits of 13 bits, and the value is sig * 2^(exp - 52).  Operands are
\* below 4096, so every intermediate fits the integers of the checker.
\* ------------------------------------------------------------------------
RECURSIVE Pow2(_)
Pow2(n) == IF n = 0 THEN 1 ELSE 2 * Pow2(n - 1)

DigitBits == 13
DigitBase == Pow2(DigitBits)
FractionBits == 4 * DigitBits

Abs(x) == IF x < 0 THEN -x ELSE x

\* floor(log2(n / d)) for positive integers n, d
RECURSIVE Log2Floor(_, _)
Log2Floor(n, d) ==
    IF n >= d
    THEN (IF n >= 2 * d THEN 1 + Log2Floor(n, 2 * d) ELSE 0)
    ELSE Log2Floor(2 * n, d) - 1

\* k more quotient digits of r / den (0 <= r < den), then the last remainder
RECURSIVE DivDigits(_, _, _, _)
DivDigits(r, den, digits, k) ==
    IF k = 0 THEN <<digits, r>>
    ELSE DivDigits((r * DigitBase) % den, den,
                   Append(digits, (r * DigitBase) \div den), k - 1)

\* sig + c * DigitBase^(5 - i); the leading digit absorbs the last carry
RECURSIVE AddAt(_, _, _)
AddAt(sig, i, c) ==
    IF c = 0 THEN sig
    ELSE IF i = 1 THEN [sig EXCEPT ![1] = @ + c]
    ELSE AddAt([sig EXCEPT ![i] = (@ + c) % DigitBase], i - 1,
               (sig[i] + c) \div DigitBase)

\* the double nearest to n / d (ties to even), for positive integers n, d
FloatDiv(n, d) ==
    LET e    == Log2Floor(n, d)
        num  == IF e < 0 THEN n * Pow2(-e) ELSE n
        den  == IF e > 0 THEN d * Pow2(e) ELSE d
        q    == DivDigits(num - den, den, <<1>>, 4)
        up   == 2 * q[2] > den \/ (2 * q[2] = den /\ q[1][5] % 2 = 1)
        sig  == IF up THEN AddAt(q[1], 5, 1) ELSE q[1]
    IN  IF sig[1] = 2 THEN [sig |-> <<1, 0, 0, 0, 0>>, exp |-> e + 1]
        ELSE [sig |-> sig, exp |-> e]

\* sig * w, digit by digit from the last one
RECURSIVE MulDigits(_, _, _, _)
MulDigits(sig, w, i, carry) ==
    IF i = 1 THEN [sig EXCEPT ![1] = @ * w + carry]
    ELSE MulDigits([sig EXCEPT ![i] = (@ * w + carry) % DigitBase], w, i - 1,
                   (sig[i] * w + carry) \div DigitBase)

\* the double nearest to w * x (ties to even), for a positive integer w:
\* the exact product has t bits more than a significand holds
FloatMul(w, x) ==
    LET p    == MulDigits(x.sig, w, 5, 0)
        t    == Log2Floor(p[1], 1)
        unit == Pow2(t)
        rem  == p[5] % unit
        even == (p[5] \div unit) % 2 = 0
        up   == 2 * rem > unit \/ (2 * rem = unit /\ ~even)
        cut  == [p EXCEPT ![5] = @ - rem]
    IN  [sig |-> IF up THEN AddAt(cut, 5, unit) ELSE cut, exp |-> x.exp]

\* x * 2^k rounded down, for x >= 0
Shift(x, k) ==
    IF k >= 0 THEN x * Pow2(k)
    ELSE IF -k > 30 THEN 0
    ELSE x \div Pow2(-k)

\* floor(sig / 2^s): the digits are disjoint bit fields
ShiftRight(sig, s) ==
    Shift(sig[1], 4 * DigitBits - s) + Shift(sig[2], 3 * DigitBits - s)
      + Shift(sig[3], 2 * DigitBits - s) + Shift(sig[4], DigitBits - s)
      + Shift(sig[5], -s)

\* sig has a non-zero bit below bit s
LowBits(sig, s) ==
    \E i \in 1..5 :
        LET width == s - (5 - i) * DigitBits
        IN  /\ width > 0
            /\ \/ width > 30 /\ sig[i] # 0
               \/ width <= 30 /\ sig[i] % Pow2(width) # 0

\* Math.round(x) for the positive double x: floor(x + 0.5)
RoundPositive(x) ==
    LET s == FractionBits - x.exp
    IN  (ShiftRight(x.sig, s - 1) + 1) \div 2

\* Math.round(-x) for the positive double x: -ceil(x - 0.5)
RoundNegative(x) ==
    LET s    == FractionBits - x.exp
        half == ShiftRight(x.sig, s - 1) % 2 = 1
    IN  -(ShiftRight(x.sig, s)
           + (IF half /\ LowBits(x.sig, s - 1) THEN 1 ELSE 0))

\* Math.round(value * (n / d)): the expression of both dimension handlers
MathRoundScaled(value, n, d) ==
    IF value = 0 THEN 0
    ELSE LET x == FloatMul(Abs(value), FloatDiv(n, d))
         IN  IF value > 0 THEN RoundPositive(x) ELSE RoundNegative(x)

\* round-half-up of the exact quotient value * n / d
RoundHalfUp(value, n, d) == (2 * value * n + d) \div (2 * d)

\* ------------------------------------------------------------------------
\* State
\* ------------------------------------------------------------------------
VARIABLES
    images,               \* useState<ImageData[]>: the registry, in order
    newWidth,             \* target width
    newHeight,            \* target height
    quality,              \* 10..100
    outputFormat,         \* "jpeg" | "png" | "webp" | "avif"
    maintainAspectRatio,  \* aspect lock
    processing,           \* the in-flight flag
    bulkMode,             \* single-image or bulk mode
    pendingLoads,         \* decodes started by loadImage, with their closure
    inflight,             \* unsettled processAllImages calls, with their closure
    objectURLs,           \* object URLs created and not revoked
    now,                  \* last value read from Date.now()
    alerts,               \* alert() dialogs shown
    lastClear,            \* history: object URLs created before the last resetImages
    captured,             \* history: the image last registered into an empty registry
    timers,               \* setTimeout callbacks of downloadAllImages not yet run
    downloads,            \* the downloads triggered so far (link.click()), in order
    clock,                \* milliseconds elapsed on the timer clock
    exportCalls,          \* downloadAllImages calls so far
    activeTab,            \* PDFTools: the tab shown
    pdfFile,              \* PDFTools: file, the selected file or null
    pdfProcessing,        \* PDFTools: processing
    downloadUrl,          \* PDFTools: the result offered for download, or ''
    conversionStatus,     \* PDFTools: the status line
    conversions,          \* PDFTools: handleConversion calls waiting on a converter
    messages,             \* AIChat: the conversation
    inputText,            \* AIChat: the text field
    isTyping,             \* AIChat: a request is awaited
    selectedImage,        \* AIChat: data URL of the attached image, or null
    imageFile,            \* AIChat: the attached file, or null
    readers,              \* AIChat: FileReaders started by handleImageSelect
    requests              \* AIChat: handleSendMessage calls not yet settled

vars == <<images, newWidth, newHeight, quality, outputFormat,
          maintainAspectRatio, processing, bulkMode, pendingLoads, inflight,
          objectURLs, now, alerts, lastClear, captured, timers, downloads,
          clock, exportCalls, activeTab, pdfFile, pdfProcessing, downloadUrl,
          conversionStatus, conversions, messages, inputText, isTyping, selectedImage,
          imageFile, readers, requests>>

\* the state of the resizer that exporting does not write
resizer == <<images, newWidth, newHeight, quality, outputFormat,
             maintainAspectRatio, processing, bulkMode, pendingLoads,
             inflight, objectURLs, now, alerts, lastClear, captured>>

export == <<timers, downloads, clock, exportCalls>>

pdfTools == <<activeTab, pdfFile, pdfProcessing, downloadUrl,
              conversionStatus, conversions>>

aiChat == <<messages, inputText, isTyping, selectedImage, imageFile, readers,
            requests>>

\* the state outside the registry, its settings and its batches
elsewhere == <<export, pdfTools, aiChat>>

\* null, and the empty downloadUrl
Null == "null"
NoResult == [tab |-> ""]

\* the message the chat opens with
Greeting == [isBot |-> TRUE, text |-> "greeting", image |-> Null]

config == <<newWidth, newHeight, quality, outputFormat, maintainAspectRatio>>
history == <<lastClear, captured>>

\* processedUrl of an entry that has no artifact (undefined)
NoUrl == [format |-> "undefined"]

\* no image registered since the last resetImages
NoImage == [url |-> 0]

Init ==
    /\ images = <<>>
    /\ newWidth = 0
    /\ newHeight = 0
    /\ quality = 90
    /\ outputFormat = "jpeg"
    /\ maintainAspectRatio = TRUE
    /\ processing = FALSE
    /\ bulkMode = FALSE
    /\ pendingLoads = {}
    /\ inflight = <<>>
    /\ objectURLs = {}
    /\ now = 0
    /\ alerts = 0
    /\ lastClear = 0
    /\ captured = NoImage
    /\ timers = {}
    /\ downloads = <<>>
    /\ clock = 0
    /\ exportCalls = 0
    /\ activeTab = "any-to-pdf"
    /\ pdfFile = Null
    /\ pdfProcessing = FALSE
    /\ downloadUrl = NoResult
    /\ conversionStatus = ""
    /\ conversions = {}
    /\ messages = <<Greeting>>
    /\ inputText = ""
    /\ isTyping = FALSE
    /\ selectedImage = Null
    /\ imageFile = Null
    /\ readers = {}
    /\ requests = <<>>

\* ------------------------------------------------------------------------
\* What is rendered, and enabled, in the current state
\* ------------------------------------------------------------------------
\* the drop zone replaces the image grid while the registry is empty
DropZoneRendered == Len(images) = 0

\* a file input rendered in every state
FileInputAlways == TRUE

\* a file input is in the drop zone, and in the "Add More Images" bar
FileInputRendered == Len(images) = 0 \/ bulkMode

\* width, height, aspect lock, format and quality controls
SettingsDisabled == Len(images) = 0

\* the button without its in-flight test
ProcessButtonNoFlag == Len(images) = 0

ProcessButtonDisabled == Len(images) = 0 \/ processing

\* ------------------------------------------------------------------------
\* Registration
\* ------------------------------------------------------------------------
Times == 0..MaxNow

\* the readings of Date.now() made by k calls in a row, out of times
Readings(k, times) ==
    {ts \in [1..k -> times] :
        /\ \A i \in 1..k : ts[i] >= now
        /\ \A i \in 1..(k - 1) : ts[i] <= ts[i + 1]}

\* loadImage(file) for every file of fs: an object URL, an id and a pending
\* decode each; onload will see newWidth and newHeight as they are now
loadImage(fs, ts, rs) ==
    LET n == Cardinality(objectURLs)
        k == Len(fs)
    IN  /\ n + k <= MaxLoads
        /\ pendingLoads' = pendingLoads \cup
              {[id |-> <<ts[i], rs[i]>>, file |-> fs[i], url |-> n + i,
                newWidth |-> newWidth, newHeight |-> newHeight] : i \in 1..k}
        /\ objectURLs' = objectURLs \cup (n + 1)..(n + k)
        /\ now' = IF k = 0 THEN now ELSE ts[k]

handleFileSelect(files, ts, rs) ==
    IF bulkMode
    THEN /\ loadImage(files, ts, rs)
         /\ UNCHANGED images
    ELSE /\ images' = <<>>
         /\ loadImage(<<files[1]>>, ts, rs)

\* the files handleFileSelect passes to loadImage
Selected(files) == IF bulkMode THEN files ELSE <<files[1]>>

\* the files handleDrop passes to loadImage
Dropped(files) ==
    SelectSeq(IF bulkMode THEN files ELSE <<files[1]>>, IsImageType)

handleDrop(files, ts, rs) ==
    /\ loadImage(Dropped(files), ts, rs)
    /\ images' = IF bulkMode THEN images ELSE <<>>

FileLists == UNION {[1..k -> Files] : k \in 1..MaxSelect}

\* the user picks files in the file dialog (one file unless multiple is set);
\* Date.now() reads from times, Math.random() draws from suffixes
SelectFilesFrom(times, suffixes) ==
    /\ FileInputRendered
    /\ \E files \in FileLists :
         /\ bulkMode \/ Len(files) = 1
         /\ \E ts \in Readings(Len(Selected(files)), times),
               rs \in [1..Len(Selected(files)) -> suffixes] :
              handleFileSelect(files, ts, rs)
    /\ UNCHANGED <<config, processing, bulkMode, inflight, alerts, history>>
    /\ UNCHANGED elsewhere

SelectFiles == SelectFilesFrom(Times, RandomSuffixes)

\* the user drops files on the drop zone
DropFiles ==
    /\ DropZoneRendered
    /\ \E files \in FileLists :
         \E ts \in Readings(Len(Dropped(files)), Times),
            rs \in [1..Len(Dropped(files)) -> RandomSuffixes] :
              handleDrop(files, ts, rs)
    /\ UNCHANGED <<config, processing, bulkMode, inflight, alerts, history>>
    /\ UNCHANGED elsewhere

\* the entry img.onload builds
ImageDataOf(p) ==
    [id |-> p.id, file |-> p.file, url |-> p.url,
     width |-> NaturalSize[p.file][1], height |-> NaturalSize[p.file][2],
     processedUrl |-> NoUrl]

\* img.onload of a decode started by loadImage
ImgOnload(p) ==
    /\ p \in pendingLoads
    /\ Decodes[p.file]
    /\ pendingLoads' = pendingLoads \ {p}
    /\ images' = Append(images, ImageDataOf(p))
    /\ IF p.newWidth = 0 /\ p.newHeight = 0
       THEN /\ newWidth' = NaturalSize[p.file][1]
            /\ newHeight' = NaturalSize[p.file][2]
       ELSE UNCHANGED <<newWidth, newHeight>>
    /\ captured' = IF Len(images) = 0 THEN ImageDataOf(p) ELSE captured
    /\ UNCHANGED <<quality, outputFormat, maintainAspectRatio, processing,
                   bulkMode, inflight, objectURLs, now, alerts, lastClear>>
    /\ UNCHANGED elsewhere

\* the error event of a decode started by loadImage: no handler is attached
ImgOnerror(p) ==
    /\ p \in pendingLoads
    /\ ~Decodes[p.file]
    /\ pendingLoads' = pendingLoads \ {p}
    /\ UNCHANGED <<images, config, processing, bulkMode, inflight, objectURLs,
                   now, alerts, history>>
    /\ UNCHANGED elsewhere

removeImage(id) ==
    images' = SelectSeq(images, LAMBDA img : img.id # id)

\* the X button of a rendered entry
ClickRemove ==
    /\ \E i \in 1..Len(images) : removeImage(images[i].id)
    /\ UNCHANGED <<config, processing, bulkMode, pendingLoads, inflight,
                   objectURLs, now, alerts, history>>
    /\ UNCHANGED elsewhere

\* a reset that also puts the dimensions back to "not set"
resetImagesAndSize ==
    /\ images' = <<>>
    /\ lastClear' = Cardinality(objectURLs)
    /\ captured' = NoImage
    /\ newWidth' = 0
    /\ newHeight' = 0
    /\ UNCHANGED <<quality, outputFormat, maintainAspectRatio>>

\* resetImages: the registry is emptied (and the file input blanked); no
\* setting is written
resetImages ==
    /\ images' = <<>>
    /\ lastClear' = Cardinality(objectURLs)
    /\ captured' = NoImage
    /\ UNCHANGED config

\* "Remove All Images", rendered with the image grid
ClickRemoveAll ==
    /\ Len(images) # 0
    /\ resetImages
    /\ UNCHANGED <<processing, bulkMode, pendingLoads, inflight, objectURLs,
                   now, alerts>>
    /\ UNCHANGED elsewhere

\* the "Single Image" and "Bulk Processing" buttons
ClickMode(bulk) ==
    /\ bulkMode' = bulk
    /\ resetImages
    /\ UNCHANGED <<processing, pendingLoads, inflight, objectURLs, now,
                   alerts>>
    /\ UNCHANGED elsewhere

\* ------------------------------------------------------------------------
\* Resize configuration
\* ------------------------------------------------------------------------
WidthInputs == {0, 1, 400}
HeightInputs == {0, 27, 150}
Formats == {"jpeg", "png", "webp", "avif"}
\* positions the quality slider is asked to take
QualityInputs == {5, 150}

\* the quality slider: <input type="range" min="10" max="100">
RangeMin == 10
RangeMax == 100

\* a range input that stores the position it is asked to take
RangeValueUnclamped(raw) == raw

\* the value of the range input once it is asked to take position raw: the
\* element keeps its value within its min and max
RangeValue(raw) ==
    IF raw < RangeMin THEN RangeMin
    ELSE IF raw > RangeMax THEN RangeMax
    ELSE raw

handleWidthChange(width) ==
    /\ newWidth' = width
    /\ IF maintainAspectRatio /\ Len(images) > 0
       THEN newHeight' = MathRoundScaled(width, images[1].height, images[1].width)
       ELSE UNCHANGED newHeight

handleHeightChange(height) ==
    /\ newHeight' = height
    /\ IF maintainAspectRatio /\ Len(images) > 0
       THEN newWidth' = MathRoundScaled(height, images[1].width, images[1].height)
       ELSE UNCHANGED newWidth

\* the width field: Number(e.target.value), for the values of inputs
ChangeWidthFrom(inputs) ==
    /\ ~SettingsDisabled
    /\ \E width \in inputs : handleWidthChange(width)
    /\ UNCHANGED <<images, quality, outputFormat, maintainAspectRatio,
                   processing, bulkMode, pendingLoads, inflight, objectURLs,
                   now, alerts, history>>
    /\ UNCHANGED elsewhere

ChangeWidth == ChangeWidthFrom(WidthInputs)

\* the height field
ChangeHeight ==
    /\ ~SettingsDisabled
    /\ \E height \in HeightInputs : handleHeightChange(height)
    /\ UNCHANGED <<images, quality, outputFormat, maintainAspectRatio,
                   processing, bulkMode, pendingLoads, inflight, objectURLs,
                   now, alerts, history>>
    /\ UNCHANGED elsewhere

\* the "Maintain aspect ratio" checkbox
ToggleAspectRatio ==
    /\ ~SettingsDisabled
    /\ maintainAspectRatio' = ~maintainAspectRatio
    /\ UNCHANGED <<images, newWidth, newHeight, quality, outputFormat,
                   processing, bulkMode, pendingLoads, inflight, objectURLs,
                   now, alerts, history>>
    /\ UNCHANGED elsewhere

\* the output format select
ChangeFormat ==
    /\ ~SettingsDisabled
    /\ \E f \in Formats \ {outputFormat} : outputFormat' = f
    /\ UNCHANGED <<images, newWidth, newHeight, quality, maintainAspectRatio,
                   processing, bulkMode, pendingLoads, inflight, objectURLs,
                   now, alerts, history>>
    /\ UNCHANGED elsewhere

\* the quality slider (min 10, max 100), rendered unless the format is png
ChangeQuality ==
    /\ ~SettingsDisabled
    /\ outputFormat # "png"
    /\ \E raw \in QualityInputs :
         /\ RangeValue(raw) # quality
         /\ quality' = RangeValue(raw)
    /\ UNCHANGED <<images, newWidth, newHeight, outputFormat,
                   maintainAspectRatio, processing, bulkMode, pendingLoads,
                   inflight, objectURLs, now, alerts, history>>
    /\ UNCHANGED elsewhere

\* ------------------------------------------------------------------------
\* Transcoding
\* ------------------------------------------------------------------------
\* a switch whose png case keeps the quality setting
EncodeRequestKeepsQuality(fmt, q) ==
    CASE fmt = "png"  -> [format |-> "image/png", quality |-> q]
      [] fmt = "webp" -> [format |-> "image/webp", quality |-> q]
      [] fmt = "avif" -> [format |-> "image/avif", quality |-> q]
      [] OTHER        -> [format |-> "image/jpeg", quality |-> q]

\* the switch of processImage: the arguments of the first toDataURL call
EncodeRequest(fmt, q) ==
    CASE fmt = "png"  -> [format |-> "image/png", quality |-> 100]
      [] fmt = "webp" -> [format |-> "image/webp", quality |-> q]
      [] fmt = "avif" -> [format |-> "image/avif", quality |-> q]
      [] OTHER        -> [format |-> "image/jpeg", quality |-> q]

\* the arguments of the toDataURL call in the catch block
FallbackRequest(q) == [format |-> "image/jpeg", quality |-> q]

\* the types the canvas encodes: PNG always, JPEG and WebP in this browser,
\* AVIF not
EncoderTypes == {"image/png", "image/jpeg", "image/webp"}

\* the data URL of the canvas: the source drawn at width x height and
\* encoded; a type the canvas does not encode gives a PNG, and a PNG is
\* lossless whatever quality is asked for (quality in percent)
toDataURL(file, width, height, request) ==
    LET type == IF request.format \in EncoderTypes THEN request.format
                ELSE "image/png"
    IN  [file |-> file, width |-> width, height |-> height, format |-> type,
         quality |-> IF type = "image/png" THEN 100 ELSE request.quality]

\* a transcode that reads the configuration of the current render
processImageLive(call, i, throws) ==
    toDataURL(call.images[i].file, newWidth, newHeight,
              IF throws THEN FallbackRequest(quality)
              ELSE EncodeRequest(outputFormat, quality))

\* img.onload of processImage, in the closure of call: throws tells whether
\* the first toDataURL call threw
processImage(call, i, throws) ==
    toDataURL(call.images[i].file, call.newWidth, call.newHeight,
              IF throws THEN FallbackRequest(call.quality)
              ELSE EncodeRequest(call.outputFormat, call.quality))

RemoveAt(seq, c) == SubSeq(seq, 1, c - 1) \o SubSeq(seq, c + 1, Len(seq))

\* processAllImages up to its await; hasContext tells whether getContext('2d')
\* gave every canvas a context (if not, Promise.all rejects at once)
processAllImages(hasContext) ==
    IF Len(images) = 0
    THEN UNCHANGED <<processing, inflight, alerts>>
    ELSE IF hasContext
    THEN /\ Len(inflight) < MaxInflight
         /\ processing' = TRUE
         /\ inflight' = Append(inflight,
              [images |-> images, newWidth |-> newWidth, newHeight |-> newHeight,
               quality |-> quality, outputFormat |-> outputFormat,
               results |-> [i \in 1..Len(images) |-> NoUrl]])
         /\ UNCHANGED alerts
    ELSE /\ alerts < MaxAlerts
         /\ alerts' = alerts + 1
         /\ processing' = FALSE
         /\ UNCHANGED inflight

\* the "Process" button
ClickProcess ==
    /\ ~ProcessButtonDisabled
    /\ \E hasContext \in BOOLEAN : processAllImages(hasContext)
    /\ UNCHANGED <<images, config, bulkMode, pendingLoads, objectURLs, now,
                   history>>
    /\ UNCHANGED elsewhere

\* the results attached to the entries in reverse
processedImagesReversed(call, results) ==
    [i \in 1..Len(call.images) |->
        [call.images[Len(call.images) + 1 - i] EXCEPT !.processedUrl = results[i]]]

\* the entries processAllImages commits once every transcode has resolved
processedImages(call, results) ==
    [i \in 1..Len(call.images) |->
        [call.images[i] EXCEPT !.processedUrl = results[i]]]

\* one transcode of call c resolves; when it is the last one, Promise.all
\* resolves and the call commits and settles
TranscodeOnload(c, i) ==
    /\ c \in 1..Len(inflight)
    /\ i \in 1..Len(inflight[c].images)
    /\ inflight[c].results[i] = NoUrl
    /\ \E throws \in BOOLEAN :
         LET call    == inflight[c]
             results == [call.results EXCEPT ![i] = processImage(call, i, throws)]
         IN  IF \A j \in 1..Len(call.images) : results[j] # NoUrl
             THEN /\ images' = processedImages(call, results)
                  /\ processing' = FALSE
                  /\ inflight' = RemoveAt(inflight, c)
             ELSE /\ inflight' = [inflight EXCEPT ![c].results = results]
                  /\ UNCHANGED <<images, processing>>
    /\ UNCHANGED <<config, bulkMode, pendingLoads, objectURLs, now, alerts,
                   history>>
    /\ UNCHANGED elsewhere

\* a catch block that keeps the results of the transcodes that resolved
TranscodeOnerrorPartial(c, i) ==
    /\ c \in 1..Len(inflight)
    /\ i \in 1..Len(inflight[c].images)
    /\ inflight[c].results[i] = NoUrl
    /\ alerts < MaxAlerts
    /\ alerts' = alerts + 1
    /\ processing' = FALSE
    /\ images' = [j \in 1..Len(inflight[c].images) |->
                    [inflight[c].images[j] EXCEPT
                        !.processedUrl = inflight[c].results[j]]]
    /\ inflight' = RemoveAt(inflight, c)
    /\ UNCHANGED <<config, bulkMode, pendingLoads, objectURLs, now, history>>
    /\ UNCHANGED elsewhere

\* a failure path without the finally block: the flag is left as it is
TranscodeOnerrorKeepsFlag(c, i) ==
    /\ c \in 1..Len(inflight)
    /\ i \in 1..Len(inflight[c].images)
    /\ inflight[c].results[i] = NoUrl
    /\ alerts < MaxAlerts
    /\ alerts' = alerts + 1
    /\ inflight' = RemoveAt(inflight, c)
    /\ UNCHANGED <<images, processing, config, bulkMode, pendingLoads,
                   objectURLs, now, history>>
    /\ UNCHANGED elsewhere

\* one transcode of call c fails to load its source: Promise.all rejects,
\* the call reports the failure and settles; what the other transcodes of
\* the call do afterwards is not observed
TranscodeOnerror(c, i) ==
    /\ c \in 1..Len(inflight)
    /\ i \in 1..Len(inflight[c].images)
    /\ inflight[c].results[i] = NoUrl
    /\ alerts < MaxAlerts
    /\ alerts' = alerts + 1
    /\ processing' = FALSE
    /\ inflight' = RemoveAt(inflight, c)
    /\ UNCHANGED <<images, config, bulkMode, pendingLoads, objectURLs, now,
                   history>>
    /\ UNCHANGED elsewhere

\* ------------------------------------------------------------------------
\* Export
\* ------------------------------------------------------------------------
hasProcessedImages == \E i \in 1..Len(images) : images[i].processedUrl # NoUrl

\* the stagger of downloadAllImages, in milliseconds
StaggerMs == 100

\* timers that are all due at once
NoStagger(index) == 0

\* the delay of the timer of the entry at index (from 0)
StaggerDelay(index) == index * StaggerMs

\* downloadImage(imageData) in a render whose outputFormat is ext: the
\* link that is clicked, if the entry has an artifact; call and index tell
\* which timer of which downloadAllImages call ran it (0 for the entry's
\* own Download button), at the time of the click
downloadImage(imageData, ext, call, index, at) ==
    IF imageData.processedUrl # NoUrl
    THEN downloads' = Append(downloads,
            [call |-> call, index |-> index, file |-> imageData.file,
             url |-> imageData.url, href |-> imageData.processedUrl,
             ext |-> ext, at |-> at])
    ELSE UNCHANGED downloads

\* downloadAllImages: one timer for every entry that has an artifact
downloadAllImages ==
    /\ exportCalls' = exportCalls + 1
    /\ timers' = timers \cup
          {[call |-> exportCalls + 1, index |-> i, imageData |-> images[i],
            ext |-> outputFormat, due |-> clock + StaggerDelay(i - 1)] :
              i \in {j \in 1..Len(images) : images[j].processedUrl # NoUrl}}

\* "Download All Processed"
ClickDownloadAll ==
    /\ hasProcessedImages
    /\ exportCalls < MaxExports
    /\ downloadAllImages
    /\ UNCHANGED <<resizer, downloads, clock, pdfTools, aiChat>>

\* t runs no later than u: timers run in the order of their due times,
\* and of their creation when due together
RunsBefore(t, u) ==
    \/ t.due < u.due
    \/ t.due = u.due /\ t.call < u.call
    \/ t.due = u.due /\ t.call = u.call /\ t.index <= u.index

\* the next timer of downloadAllImages runs
TimerFire ==
    /\ Len(downloads) < MaxDownloads
    /\ \E t \in timers :
         /\ \A u \in timers : RunsBefore(t, u)
         /\ timers' = timers \ {t}
         /\ clock' = IF t.due > clock THEN t.due ELSE clock
         /\ downloadImage(t.imageData, t.ext, t.call, t.index,
                          IF t.due > clock THEN t.due ELSE clock)
    /\ UNCHANGED <<resizer, exportCalls, pdfTools, aiChat>>

\* the Download button on the card of a processed image
ClickDownload ==
    /\ Len(downloads) < MaxDownloads
    /\ \E i \in 1..Len(images) :
         /\ images[i].processedUrl # NoUrl
         /\ downloadImage(images[i], outputFormat, 0, i, clock)
    /\ UNCHANGED <<resizer, timers, clock, exportCalls, pdfTools, aiChat>>

\* ------------------------------------------------------------------------
\* PDF tools page
\* ------------------------------------------------------------------------
Tabs == {"any-to-pdf", "pdf-to-image", "pdf-merge"}

PdfFiles == {"a.png", "d.pdf", "t.txt", "n.bin"}

\* file.name.split('.').pop()?.toLowerCase()
fileExtension(f) ==
    CASE f = "a.png" -> "png"
      [] f = "d.pdf" -> "pdf"
      [] f = "t.txt" -> "txt"
      [] OTHER       -> "bin"

\* handleConversion awaits a converter for f under tab; otherwise it runs
\* to its end at once
AwaitsConverter(f, tab) ==
    \/ tab = "any-to-pdf"
          /\ fileExtension(f) \in {"jpg", "jpeg", "png", "gif", "bmp", "webp",
                                    "txt", "csv", "docx", "doc"}
    \/ tab = "pdf-to-image" /\ fileExtension(f) = "pdf"

\* handleConversion throws before any await
ThrowsAtOnce(f, tab) == tab = "pdf-to-image" /\ fileExtension(f) # "pdf"

\* the object URL of the converted document: what was converted, and how
resultUrl(f, tab) == [tab |-> tab, file |-> f]

\* handleDrop on the upload area
PdfDrop ==
    /\ \E f \in PdfFiles : pdfFile' = f
    /\ UNCHANGED <<activeTab, pdfProcessing, downloadUrl, conversionStatus,
                   conversions>>
    /\ UNCHANGED <<resizer, export, aiChat>>

\* handleFileChange: the file input is rendered while no file is selected
PdfFileChange ==
    /\ pdfFile = Null
    /\ \E f \in PdfFiles : pdfFile' = f
    /\ UNCHANGED <<activeTab, pdfProcessing, downloadUrl, conversionStatus,
                   conversions>>
    /\ UNCHANGED <<resizer, export, aiChat>>

\* "Remove file", rendered while a file is selected
PdfRemoveFile ==
    /\ pdfFile # Null
    /\ pdfFile' = Null
    /\ downloadUrl' = NoResult
    /\ conversionStatus' = ""
    /\ UNCHANGED <<activeTab, pdfProcessing, conversions>>
    /\ UNCHANGED <<resizer, export, aiChat>>

\* a tab button
PdfSwitchTab(tab) ==
    /\ activeTab' = tab
    /\ pdfFile' = Null
    /\ downloadUrl' = NoResult
    /\ conversionStatus' = ""
    /\ UNCHANGED <<pdfProcessing, conversions>>
    /\ UNCHANGED <<resizer, export, aiChat>>

\* handleConversion up to its first await, or to its end if it has none
handleConversion ==
    IF pdfFile = Null
    THEN UNCHANGED <<pdfProcessing, downloadUrl, conversionStatus, conversions>>
    ELSE IF AwaitsConverter(pdfFile, activeTab)
    THEN /\ pdfProcessing' = TRUE
         /\ downloadUrl' = NoResult
         /\ conversionStatus' = IF activeTab = "any-to-pdf"
                                 THEN "Converting to PDF..." ELSE "Loading PDF..."
         /\ conversions' = conversions \cup
               {[file |-> pdfFile, tab |-> activeTab, loaded |-> FALSE]}
    ELSE /\ pdfProcessing' = FALSE
         /\ downloadUrl' = IF ThrowsAtOnce(pdfFile, activeTab) THEN NoResult
                            ELSE resultUrl(pdfFile, activeTab)
         /\ conversionStatus' = IF ThrowsAtOnce(pdfFile, activeTab)
                                 THEN "Conversion failed"
                                 ELSE "Conversion completed successfully!"
         /\ UNCHANGED conversions

\* "Convert File", rendered while a file is selected
PdfConvert ==
    /\ pdfFile # Null
    /\ ~pdfProcessing
    /\ handleConversion
    /\ UNCHANGED <<activeTab, pdfFile>>
    /\ UNCHANGED <<resizer, export, aiChat>>

\* convertPDFToImage of call c has loaded the document
PdfLoaded(c) ==
    /\ c \in conversions
    /\ c.tab = "pdf-to-image"
    /\ ~c.loaded
    /\ conversions' = (conversions \ {c}) \cup {[c EXCEPT !.loaded = TRUE]}
    /\ conversionStatus' = "Converting to image..."
    /\ UNCHANGED <<activeTab, pdfFile, pdfProcessing, downloadUrl>>
    /\ UNCHANGED <<resizer, export, aiChat>>

\* the converter of call c resolves (ok) or rejects
PdfConverterSettles(c, ok) ==
    /\ c \in conversions
    /\ conversions' = conversions \ {c}
    /\ pdfProcessing' = FALSE
    /\ downloadUrl' = IF ok THEN resultUrl(c.file, c.tab) ELSE downloadUrl
    /\ conversionStatus' = IF ok THEN "Conversion completed successfully!"
                            ELSE "Conversion failed"
    /\ UNCHANGED <<activeTab, pdfFile>>
    /\ UNCHANGED <<resizer, export, aiChat>>

\* "Download Result" is rendered
DownloadOffered == pdfFile # Null /\ downloadUrl # NoResult /\ ~pdfProcessing

\* the link downloadFile clicks
downloadFile ==
    [href |-> downloadUrl, name |-> pdfFile,
     extension |-> IF activeTab = "pdf-to-image" THEN ".png" ELSE ".pdf"]

\* ------------------------------------------------------------------------
\* AI chat page
\* ------------------------------------------------------------------------
Texts == {"", " ", "hi"}

\* inputText.trim() is empty
Blank(text) == text \in {"", " "}

\* what a request can end in: a reply, an error status, a thrown fetch, a
\* failed read of the attached file
Outcomes == {"reply", "status", "throws", "unreadable"}

\* the text field, disabled while a request is awaited
TypeText ==
    /\ ~isTyping
    /\ \E text \in Texts \ {inputText} : inputText' = text
    /\ UNCHANGED <<messages, isTyping, selectedImage, imageFile, readers,
                   requests>>
    /\ UNCHANGED <<resizer, export, pdfTools>>

\* handleImageSelect: an image file starts a FileReader
handleImageSelect(f) ==
    IF IsImageType(f)
    THEN /\ Cardinality(readers) < MaxReaders
         /\ imageFile' = f
         /\ readers' = readers \cup {f}
    ELSE UNCHANGED <<imageFile, readers>>

\* the upload button
ChooseImage ==
    /\ \E f \in Files : handleImageSelect(f)
    /\ UNCHANGED <<messages, inputText, isTyping, selectedImage, requests>>
    /\ UNCHANGED <<resizer, export, pdfTools>>

\* reader.onload of handleImageSelect
ReaderOnload(f) ==
    /\ f \in readers
    /\ readers' = readers \ {f}
    /\ selectedImage' = f
    /\ UNCHANGED <<messages, inputText, isTyping, imageFile, requests>>
    /\ UNCHANGED <<resizer, export, pdfTools>>

removeSelectedImage ==
    /\ selectedImage' = Null
    /\ imageFile' = Null

\* the X on the image preview
ClickRemoveImage ==
    /\ selectedImage # Null
    /\ removeSelectedImage
    /\ UNCHANGED <<messages, inputText, isTyping, readers, requests>>
    /\ UNCHANGED <<resizer, export, pdfTools>>

\* handleSendMessage up to its first await
handleSendMessage ==
    IF Blank(inputText) /\ selectedImage = Null
    THEN UNCHANGED <<messages, inputText, isTyping, requests>>
    ELSE /\ Len(messages) + 2 <= MaxMessages
         /\ messages' = Append(messages,
               [isBot |-> FALSE,
                text |-> IF inputText # "" THEN inputText
                         ELSE "Please analyze this image",
                image |-> selectedImage])
         /\ inputText' = ""
         /\ isTyping' = TRUE
         /\ requests' = Append(requests,
               [text |-> inputText,
                reads |-> imageFile # Null /\ selectedImage # Null])

\* the send button
SendDisabled == (Blank(inputText) /\ selectedImage = Null) \/ isTyping

ClickSend ==
    /\ ~SendDisabled
    /\ handleSendMessage
    /\ UNCHANGED <<selectedImage, imageFile, readers>>
    /\ UNCHANGED <<resizer, export, pdfTools>>

\* Enter in the text field (handleKeyPress), disabled while a request is
\* awaited
PressEnter ==
    /\ ~isTyping
    /\ handleSendMessage
    /\ UNCHANGED <<selectedImage, imageFile, readers>>
    /\ UNCHANGED <<resizer, export, pdfTools>>

\* the text of the bot message for an outcome
botText(outcome) ==
    CASE outcome = "reply"      -> "reply"
      [] outcome = "unreadable" -> "Sorry, there was an error"
      [] OTHER                  -> "Error: ... Please try again."

\* a request whose failures end without a message
RequestSettlesSilentOnError(outcome) ==
    /\ requests # <<>>
    /\ outcome = "unreadable" => requests[1].reads
    /\ requests' = Tail(requests)
    /\ messages' = IF outcome = "reply"
                    THEN Append(messages, [isBot |-> TRUE, text |-> botText(outcome),
                                           image |-> Null])
                    ELSE messages
    /\ isTyping' = FALSE
    /\ removeSelectedImage
    /\ UNCHANGED <<inputText, readers>>
    /\ UNCHANGED <<resizer, export, pdfTools>>

\* the request of the oldest handleSendMessage call settles: the try block
\* or the catch block appends the bot message, the finally block runs
RequestSettles(outcome) ==
    /\ requests # <<>>
    /\ outcome = "unreadable" => requests[1].reads
    /\ requests' = Tail(requests)
    /\ messages' = Append(messages, [isBot |-> TRUE, text |-> botText(outcome),
                                      image |-> Null])
    /\ isTyping' = FALSE
    /\ removeSelectedImage
    /\ UNCHANGED <<inputText, readers>>
    /\ UNCHANGED <<resizer, export, pdfTools>>

\* the size shown on the card of a processed image: the fields of the
\* current render
ProcessedLabel(img) == <<newWidth, newHeight>>

\* ------------------------------------------------------------------------
\* Specifications
\* ------------------------------------------------------------------------
\* the registry and the batch processor, configuration as seeded
Next ==
    \/ SelectFiles
    \/ DropFiles
    \/ \E p \in pendingLoads : ImgOnload(p)
    \/ \E p \in pendingLoads : ImgOnerror(p)
    \/ ClickRemove
    \/ ClickRemoveAll
    \/ \E bulk \in BOOLEAN : ClickMode(bulk)
    \/ ClickProcess
    \/ \E c \in 1..MaxInflight, i \in 1..MaxLoads : TranscodeOnload(c, i)
    \/ \E c \in 1..MaxInflight, i \in 1..MaxLoads : TranscodeOnerror(c, i)

Spec == Init /\ [][Next]_vars

\* every image load of a transcode eventually fires onload or onerror
Settle ==
    \E c \in 1..MaxInflight, i \in 1..MaxLoads :
        TranscodeOnload(c, i) \/ TranscodeOnerror(c, i)

SpecLive == Spec /\ WF_vars(Settle)

\* the registry and the dimension fields; every file is picked within one
\* millisecond
NextResize ==
    \/ SelectFilesFrom({now}, RandomSuffixes)
    \/ \E p \in pendingLoads : ImgOnload(p)
    \/ ClickRemove
    \/ ClickRemoveAll
    \/ \E bulk \in BOOLEAN : ClickMode(bulk)
    \/ ChangeWidth
    \/ ChangeHeight
    \/ ToggleAspectRatio

SpecResize == Init /\ [][NextResize]_vars

\* the batch processor and the settings it reads; every file is picked
\* within one millisecond and no source fails to load
NextEncode ==
    \/ SelectFilesFrom({now}, {"k3x"})
    \/ \E p \in pendingLoads : ImgOnload(p)
    \/ ChangeWidthFrom({400})
    \/ ChangeFormat
    \/ ChangeQuality
    \/ ClickProcess
    \/ \E c \in 1..MaxInflight, i \in 1..MaxLoads : TranscodeOnload(c, i)

SpecEncode == Init /\ [][NextEncode]_vars

\* the batch processor and the downloads; every file is picked within one
\* millisecond and no source fails to load
NextExport ==
    \/ SelectFilesFrom({now}, {"k3x"})
    \/ \E p \in pendingLoads : ImgOnload(p)
    \/ ChangeFormat
    \/ ClickProcess
    \/ \E c \in 1..MaxInflight, i \in 1..MaxLoads : TranscodeOnload(c, i)
    \/ ClickDownloadAll
    \/ TimerFire

SpecExport == Init /\ [][NextExport]_vars

\* the PDF tools page
NextPdf ==
    \/ PdfDrop
    \/ PdfFileChange
    \/ PdfRemoveFile
    \/ \E tab \in Tabs : PdfSwitchTab(tab)
    \/ PdfConvert
    \/ \E c \in conversions : PdfLoaded(c)
    \/ \E c \in conversions, ok \in BOOLEAN : PdfConverterSettles(c, ok)

SpecPdf == Init /\ [][NextPdf]_vars

\* the AI chat page
NextChat ==
    \/ TypeText
    \/ ChooseImage
    \/ \E f \in readers : ReaderOnload(f)
    \/ ClickRemoveImage
    \/ ClickSend
    \/ PressEnter
    \/ \E outcome \in Outcomes : RequestSettles(outcome)

SpecChat == Init /\ [][NextChat]_vars

\* ------------------------------------------------------------------------
\* Properties
\* ------------------------------------------------------------------------
HasArtifact(img) == img.processedUrl # NoUrl

\* C1: processAllImages is never started while an earlier call is unsettled:
\* at most one call is in flight in every reachable state.
C1_OneBatchInFlight == Len(inflight) <= 1

C1_Witness ==
    /\ Len(inflight) = 1
    /\ processing
    /\ ProcessButtonDisabled
    /\ Len(inflight[1].images) = 2
    /\ \E i \in 1..2 : inflight[1].results[i] # NoUrl

\* some entry of the next registry carries an artifact and was not in the
\* registry before the step
NewArtifact ==
    \E i \in 1..Len(images') :
        /\ HasArtifact(images'[i])
        /\ \A j \in 1..Len(images) : images[j] # images'[i]

\* C2: a batch in which a transcode fails is reported by exactly one alert,
\* settles (the flag is cleared) and leaves the registry as it is; an artifact
\* reaches the registry only in a step that settles a call without an alert.
C2_FailedBatchCommitsNothing ==
    [][/\ alerts' # alerts =>
            /\ alerts' = alerts + 1
            /\ images' = images
            /\ processing' = FALSE
            /\ Len(inflight') <= Len(inflight)
       /\ NewArtifact =>
            /\ alerts' = alerts
            /\ Len(inflight') < Len(inflight)]_vars

C2_Witness ==
    /\ alerts = 1
    /\ ~processing
    /\ inflight = <<>>
    /\ Len(images) = 2
    /\ \A i \in 1..2 : ~HasArtifact(images[i])

\* C3: when a call settles without a failure, the registry is the registry
\* of the moment the call was made, in the same order and with the same id,
\* file, url and natural size, every entry carrying an artifact.
C3_SuccessCommitsAll ==
    [][\A c \in 1..Len(inflight) :
          (inflight' = RemoveAt(inflight, c) /\ alerts' = alerts) =>
             /\ Len(images') = Len(inflight[c].images)
             /\ \A i \in 1..Len(images') :
                  /\ HasArtifact(images'[i])
                  /\ [images'[i] EXCEPT !.processedUrl = NoUrl]
                       = [inflight[c].images[i] EXCEPT !.processedUrl = NoUrl]]_vars

C3_Witness ==
    /\ ~processing
    /\ inflight = <<>>
    /\ Len(images) = 2
    /\ images[1].file # images[2].file
    /\ \A i \in 1..2 : HasArtifact(images[i])

\* C4: every object URL is released when its entry leaves the registry or
\* its decode fails: once no decode is pending, the object URLs that are
\* still held are as many as the entries of the registry.
C4_ObjectUrlsReleased ==
    pendingLoads = {} => Cardinality(objectURLs) = Len(images)

\* C5: the registry lists its entries in the order of their loadImage calls
\* (object URLs are numbered in that order).
C5_RegistrationOrder ==
    \A i, j \in 1..Len(images) : i < j => images[i].url < images[j].url

\* C6: no two entries of the registry have the same id.
C6_UniqueIds ==
    \A i, j \in 1..Len(images) : i # j => images[i].id # images[j].id

\* C7: a file that does not decode never becomes an entry; a step that only
\* starts decodes of such files (they were picked or dropped) or only ends
\* them (they failed) leaves the registry as it is and shows no alert.
C7_NonImageNeverRegistered ==
    [][/\ \A i \in 1..Len(images') : Decodes[images'[i].file]
       /\ ( /\ pendingLoads' # pendingLoads
            /\ \A p \in pendingLoads' \ pendingLoads : ~Decodes[p.file]
            /\ \A p \in pendingLoads \ pendingLoads' : ~Decodes[p.file] )
          => (images' = images /\ alerts' = alerts)]_vars

C7_Witness ==
    /\ Len(images) = 1
    /\ \E p \in pendingLoads : ~Decodes[p.file] /\ p.url > images[1].url

\* the steps of the width and height fields
WidthStep(width) ==
    /\ ~SettingsDisabled
    /\ handleWidthChange(width)
    /\ UNCHANGED <<images, maintainAspectRatio>>

HeightStep(height) ==
    /\ ~SettingsDisabled
    /\ handleHeightChange(height)
    /\ UNCHANGED <<images, maintainAspectRatio>>

AspectLocked == maintainAspectRatio /\ Len(images) > 0

\* C8: with the aspect lock on and W x H the natural size of the first
\* entry, setWidth(w) gives targetHeight = round-half-up(w * H / W) and
\* setHeight(h) gives targetWidth = round-half-up(h * W / H), for positive w
\* and h; without the lock only the edited dimension changes.
C8_RoundHalfUpOfExactRatio ==
    [][/\ \A w \in WidthInputs : (w > 0 /\ WidthStep(w)) =>
            /\ newWidth' = w
            /\ newHeight' = IF AspectLocked
                            THEN RoundHalfUp(w, images[1].height, images[1].width)
                            ELSE newHeight
       /\ \A h \in HeightInputs : (h > 0 /\ HeightStep(h)) =>
            /\ newHeight' = h
            /\ newWidth' = IF AspectLocked
                           THEN RoundHalfUp(h, images[1].width, images[1].height)
                           ELSE newWidth]_vars

\* the image last registered as the first entry is one whose loadImage call
\* came after the last resetImages
NewFirstImage == captured.url > lastClear

\* C9: once a new image has been registered as the first entry after a
\* clear, the aspect-locked handlers never take as reference an image whose
\* loadImage call came before that clear.
C9_ReferenceIsNewImage ==
    [][( /\ AspectLocked
         /\ NewFirstImage
         /\ \/ \E w \in WidthInputs : WidthStep(w)
            \/ \E h \in HeightInputs : HeightStep(h) )
          => images[1].url > lastClear]_vars

\* C10: between two clears both handlers compute the paired dimension from
\* the image that was registered as the first entry, whatever was registered
\* or removed since.
C10_ReferenceIsCaptured ==
    [][/\ \A w \in WidthInputs : (AspectLocked /\ captured # NoImage /\ WidthStep(w)) =>
            newHeight' = MathRoundScaled(w, captured.height, captured.width)
       /\ \A h \in HeightInputs : (AspectLocked /\ captured # NoImage /\ HeightStep(h)) =>
            newWidth' = MathRoundScaled(h, captured.width, captured.height)]_vars

\* C11: the quality slider keeps the value it hands to setQuality within
\* [10,100] (a position below 10 is stored as 10, one above 100 as 100), so
\* quality is an integer in [10,100] in every reachable state.
C11_QualityInRange == quality \in RangeMin..RangeMax

C11_Witness ==
    /\ quality = RangeMin
    /\ RangeMin \notin QualityInputs
    /\ \E raw \in QualityInputs : raw < RangeMin

\* C12: setWidth and setHeight with an argument that is not positive (0
\* when the field is emptied) change no field of the configuration.
C12_NonPositiveRejected ==
    [][( \/ \E w \in WidthInputs : w <= 0 /\ WidthStep(w)
         \/ \E h \in HeightInputs : h <= 0 /\ HeightStep(h) )
          => UNCHANGED config]_vars

\* C13: an aspect-locked setWidth or setHeight with a positive argument
\* leaves targetWidth and targetHeight positive, whatever the aspect ratio
\* of the reference image.
C13_DimensionsStayPositive ==
    [][/\ \A w \in WidthInputs : (w > 0 /\ AspectLocked /\ WidthStep(w)) =>
            (newWidth' > 0 /\ newHeight' > 0)
       /\ \A h \in HeightInputs : (h > 0 /\ AspectLocked /\ HeightStep(h)) =>
            (newWidth' > 0 /\ newHeight' > 0)]_vars

\* the qualities the slider can hold
Qualities == {RangeValue(raw) : raw \in QualityInputs} \cup {quality}

\* the artifact the first toDataURL call of a transcode of call gives
Encoded(call, i) ==
    toDataURL(call.images[i].file, call.newWidth, call.newHeight,
              EncodeRequest(call.outputFormat, call.quality))

\* C14: for a batch started with outputFormat png, the arguments of the
\* encode call and the artifact it gives are the same for every value of
\* the quality setting.
C14_PngIgnoresQuality ==
    \A c \in 1..Len(inflight) :
        inflight[c].outputFormat = "png" =>
            \A q \in Qualities, i \in 1..Len(inflight[c].images) :
                /\ EncodeRequest("png", q)
                      = EncodeRequest("png", inflight[c].quality)
                /\ Encoded([inflight[c] EXCEPT !.quality = q], i)
                      = Encoded(inflight[c], i)
                /\ (inflight[c].results[i] # NoUrl
                       /\ inflight[c].results[i].format = "image/png")
                     => inflight[c].results[i]
                          = Encoded([inflight[c] EXCEPT !.quality = q], i)

C14_Witness ==
    \E c \in 1..Len(inflight) :
        /\ inflight[c].outputFormat = "png"
        /\ inflight[c].quality = RangeMin
        /\ Len(inflight[c].images) = 2
        /\ inflight[c].results[1] # NoUrl
        /\ inflight[c].results[1].format = "image/png"

\* C15: when the canvas does not encode the requested type, every
\* transcode of the batch that resolves gives a JPEG at the quality of the
\* batch.
C15_UnsupportedFallsBackToJpeg ==
    \A c \in 1..Len(inflight) :
        EncodeRequest(inflight[c].outputFormat, inflight[c].quality).format
              \notin EncoderTypes =>
            \A i \in 1..Len(inflight[c].images) :
                inflight[c].results[i] # NoUrl =>
                    /\ inflight[c].results[i].format = "image/jpeg"
                    /\ inflight[c].results[i].quality = inflight[c].quality

\* C16: the remove button of an entry removes exactly that entry, keeps
\* the others in their order and leaves the configuration as it is.
C16_RemoveExactlyOne ==
    [][\A k \in 1..Len(images) :
          ( /\ removeImage(images[k].id)
            /\ UNCHANGED <<processing, bulkMode, pendingLoads, inflight,
                           objectURLs, now, alerts, history>> )
          => /\ images' = RemoveAt(images, k)
             /\ UNCHANGED config]_vars

\* a step of resetImages: only resetImages forgets the image last
\* registered as the first entry
ClearStep ==
    /\ captured' = NoImage
    /\ captured # NoImage \/ bulkMode' # bulkMode \/ lastClear' # lastClear

\* C17: "Remove All" and a switch of mode empty the registry and leave
\* targetWidth, targetHeight, the aspect lock, the format and the quality as
\* they were.
C17_ClearKeepsConfiguration ==
    [][ClearStep => (images' = <<>> /\ UNCHANGED config)]_vars

C17_Witness ==
    /\ images = <<>>
    /\ captured = NoImage
    /\ lastClear > 0
    /\ newWidth = 400
    /\ newHeight # 0
    /\ ~maintainAspectRatio

\* C18: the first image registered after a clear (its loadImage call came
\* after the clear) sets targetWidth and targetHeight to its natural size.
C18_SeedAfterEveryClear ==
    [][( /\ captured = NoImage
         /\ captured' # NoImage
         /\ captured'.url > lastClear )
          => /\ newWidth' = captured'.width
             /\ newHeight' = captured'.height]_vars

\* a decode completes and its image is appended to the registry
Registered ==
    /\ Len(images') = Len(images) + 1
    /\ Cardinality(pendingLoads') < Cardinality(pendingLoads)

\* C19: a registration made while both dimensions are 0 sets them to the
\* natural size of the image; a registration made while either is not 0
\* (a later decode of files picked together included) leaves both unchanged.
C19_SeedOnlyWhenUnset ==
    [][Registered =>
          IF newWidth = 0 /\ newHeight = 0
          THEN /\ newWidth' = images'[Len(images')].width
               /\ newHeight' = images'[Len(images')].height
          ELSE UNCHANGED <<newWidth, newHeight>>]_vars

\* the artifacts a transcode of entry i can give under the configuration
\* call was started with
SnapshotArtifacts(call, i) ==
    {toDataURL(call.images[i].file, call.newWidth, call.newHeight, request) :
        request \in {EncodeRequest(call.outputFormat, call.quality),
                     FallbackRequest(call.quality)}}

\* C20: a call records the configuration in effect when it is started,
\* and every artifact it produces, while it runs and when it commits, is
\* one made at the size, format and quality it recorded, whatever the
\* configuration has become since.
C20_BatchUsesSnapshot ==
    [][/\ Len(inflight') > Len(inflight) =>
            LET call == inflight'[Len(inflight')]
            IN  <<call.newWidth, call.newHeight, call.outputFormat, call.quality>>
                  = <<newWidth, newHeight, outputFormat, quality>>
       /\ \A c \in 1..Len(inflight) :
            /\ Len(inflight') = Len(inflight) =>
                 \A i \in 1..Len(inflight[c].images) :
                     inflight'[c].results[i] # NoUrl =>
                         inflight'[c].results[i] \in SnapshotArtifacts(inflight[c], i)
            /\ (inflight' = RemoveAt(inflight, c) /\ alerts' = alerts) =>
                 \A i \in 1..Len(images') :
                     images'[i].processedUrl \in SnapshotArtifacts(inflight[c], i)]_vars

C20_Witness ==
    \E c \in 1..Len(inflight) :
        /\ Len(inflight[c].images) = 2
        /\ inflight[c].results[1] # NoUrl
        /\ inflight[c].results[1].width = inflight[c].newWidth
        /\ inflight[c].newWidth # newWidth
        /\ inflight[c].outputFormat # outputFormat
        /\ inflight[c].quality # quality

\* C21: the size shown for a processed image is the size its artifact was
\* made at, also after the dimension fields are edited.
C21_LabelIsArtifactSize ==
    \A i \in 1..Len(images) :
        HasArtifact(images[i]) =>
            ProcessedLabel(images[i])
              = <<images[i].processedUrl.width, images[i].processedUrl.height>>

\* call c commits: it settles without an alert
Commits(c) == inflight' = RemoveAt(inflight, c) /\ alerts' = alerts

\* the object URLs of the entries of a registry (one per loadImage call)
Urls(seq) == {seq[i].url : i \in 1..Len(seq)}

\* C23: when a call commits, the registry gains no entry that was not in
\* it just before: an entry removed while the call was in flight does not
\* come back.
C23_CommitNeverReinserts ==
    [][\A c \in 1..Len(inflight) :
          Commits(c) => Urls(images') \subseteq Urls(images)]_vars

\* C24: when a call commits, an entry registered while the call was in
\* flight (it is in the registry and not in the snapshot of the call) stays
\* in the registry.
C24_CommitNeverDrops ==
    [][\A c \in 1..Len(inflight) :
          Commits(c) =>
             (Urls(images) \ Urls(inflight[c].images)) \subseteq Urls(images')]_vars

\* C25: in single-image mode the registry holds at most one entry.
C25_SingleModeOneEntry == ~bulkMode => Len(images) <= 1

\* C26: every entry of the registry comes from a loadImage call made
\* after the last clear.
C26_OnlyEntriesAfterClear ==
    \A i \in 1..Len(images) : images[i].url > lastClear

\* C27: processing is true exactly while a call is unsettled; it becomes
\* true only in a step that starts a call and false only in a step that
\* settles one; and, every image load of a transcode eventually firing
\* onload or onerror, a true flag eventually becomes false.
C27_FlagWhileInFlight ==
    /\ [](processing <=> inflight # <<>>)
    /\ [][processing' # processing =>
             IF processing' THEN Len(inflight') = Len(inflight) + 1
             ELSE Len(inflight') = Len(inflight) - 1]_vars
    /\ (processing ~> ~processing)

C27_Witness ==
    /\ ~processing
    /\ inflight = <<>>
    /\ alerts = 0
    /\ Len(images) = 1
    /\ HasArtifact(images[1])

\* the downloads of downloadAllImages call k, in the order they were made
DownloadsOf(k) == SelectSeq(downloads, LAMBDA d : d.call = k)

\* C22: a downloadAllImages call sets one timer for every entry that has
\* an artifact and none for an entry without one; each timer that runs
\* triggers exactly one download, of its entry; the downloads of one call
\* are made in registry order, each 100 ms after the one before.
C22_ExportAllStaggered ==
    /\ [][exportCalls' # exportCalls =>
             /\ \A i \in 1..Len(images) :
                  Cardinality({t \in timers' \ timers : t.imageData = images[i]})
                    = IF HasArtifact(images[i])
                      THEN Cardinality({j \in 1..Len(images) : images[j] = images[i]})
                      ELSE 0
             /\ Cardinality(timers' \ timers)
                  = Cardinality({i \in 1..Len(images) : HasArtifact(images[i])})
             /\ downloads' = downloads]_vars
    /\ [][(timers' # timers /\ exportCalls' = exportCalls) =>
             \E t \in timers :
                 /\ timers' = timers \ {t}
                 /\ Len(downloads') = Len(downloads) + 1
                 /\ downloads'[Len(downloads')].url = t.imageData.url
                 /\ downloads'[Len(downloads')].href = t.imageData.processedUrl]_vars
    /\ [](\A k \in 1..exportCalls :
             \A n \in 1..(Len(DownloadsOf(k)) - 1) :
                 /\ DownloadsOf(k)[n].index < DownloadsOf(k)[n + 1].index
                 /\ DownloadsOf(k)[n + 1].at = DownloadsOf(k)[n].at + 100)

C22_Witness ==
    /\ timers = {}
    /\ Len(DownloadsOf(1)) = 2
    /\ DownloadsOf(1)[1].url # DownloadsOf(1)[2].url
    /\ DownloadsOf(1)[2].at = DownloadsOf(1)[1].at + 100

\* the extension that names an encoding
ExtensionOf(format) ==
    CASE format = "image/png"  -> "png"
      [] format = "image/webp" -> "webp"
      [] format = "image/avif" -> "avif"
      [] OTHER                 -> "jpeg"

\* C28: every download is named with the extension of the format its
\* artifact is encoded in.
C28_ExtensionNamesEncoding ==
    \A n \in 1..Len(downloads) :
        downloads[n].ext = ExtensionOf(downloads[n].href.format)

\* C29: whenever "Download Result" is offered, the result it downloads is
\* the conversion of the selected file under the active tab.
C29_DownloadIsOfCurrentFile ==
    DownloadOffered =>
        downloadFile.href = resultUrl(downloadFile.name, activeTab)

\* C30: the conversation alternates, from the greeting on, between one
\* user message per accepted send and one bot message per settled request,
\* whatever the request ended in; isTyping is true exactly while a request
\* is awaited; the step that settles a request leaves isTyping false and no
\* image attached; no user message is blank with no image.
C30_OneReplyPerSend ==
    /\ [](/\ \A n \in 1..Len(messages) : messages[n].isBot <=> n % 2 = 1
          /\ isTyping <=> Len(messages) % 2 = 0
          /\ isTyping <=> requests # <<>>
          /\ \A n \in 1..Len(messages) :
               ~messages[n].isBot =>
                   (~Blank(messages[n].text) \/ messages[n].image # Null))
    /\ [][Len(requests') > Len(requests) =>
             /\ Len(messages') = Len(messages) + 1
             /\ ~messages'[Len(messages')].isBot
             /\ SubSeq(messages', 1, Len(messages)) = messages]_vars
    /\ [][Len(requests') < Len(requests) =>
             /\ Len(messages') = Len(messages) + 1
             /\ messages'[Len(messages')].isBot
             /\ SubSeq(messages', 1, Len(messages)) = messages
             /\ ~isTyping'
             /\ selectedImage' = Null
             /\ imageFile' = Null]_vars

C30_Witness ==
    /\ Len(messages) = 5
    /\ ~isTyping
    /\ messages[2].image # Null
    /\ messages[3].text # "reply"
    /\ messages[5].text = "reply"
    /\ selectedImage = Null

====
